---- MODULE Spec2Model ----
(***************************************************************************)
(* Model of optimize_cutting (src/cutting_optimizer.py): demand expansion, *)
(* first-fit-decreasing pattern generation per candidate stock length,     *)
(* best-candidate selection, result assignment and per-profile summary.    *)
(* Lengths are integers (mm).  A float ratio is kept as a pair <<n, d>>,   *)
(* d = 0 standing for numpy's inf (n > 0) and nan (n = 0).                 *)
(* An Item ID f"{code}_{i+1}" is kept as the pair <<code, i+1>>: the       *)
(* index has no underscore, so the formatted string determines the pair.   *)
(***************************************************************************)
EXTENDS Integers, Sequences, FiniteSets, Bags, TLC

\* ---- bounds of the explored inputs ----
MaxLines == 2
MaxQuantity == 2
MaxOptions == 2

Codes == {"A", "B"}
Lengths == {2, 5}
StockLengths == {4, 8}
Gaps == {1}

MaxEfficiency == "MaxEfficiency"
MinBarCount == "MinBarCount"
Methods == {MaxEfficiency, MinBarCount}

\* stock_length_options=None (the default argument)
None == <<0>>
\* float('inf'), the initial best_bar_count
Inf == -1

VARIABLES
  input_data, stock_length, cutting_gap, optimization_method,
  stock_length_options,
  pc,
  expanded_df, profile_codes, pidx,
  lengths,
  best_patterns, best_remaining_lengths, best_stock_length,
  best_efficiency, best_bar_count,
  cidx, patterns, remaining_lengths, lidx,
  scored,
  pattern_data, bar_number,
  all_patterns, all_summaries, all_results,
  patterns_df, summary_df, result_df

args == <<input_data, stock_length, cutting_gap, optimization_method>>
best == <<best_patterns, best_remaining_lengths, best_stock_length,
          best_efficiency, best_bar_count>>
cand == <<cidx, patterns, remaining_lengths, lidx>>
outs == <<all_patterns, all_summaries, all_results>>
dfs == <<patterns_df, summary_df, result_df>>

vars == <<input_data, stock_length, cutting_gap, optimization_method,
          stock_length_options, pc, expanded_df, profile_codes, pidx,
          lengths, best_patterns, best_remaining_lengths, best_stock_length,
          best_efficiency, best_bar_count, cidx, patterns, remaining_lengths,
          lidx, scored, pattern_data, bar_number, all_patterns,
          all_summaries, all_results, patterns_df, summary_df, result_df>>

\* ---- helpers ----
RECURSIVE SumSeq(_)
SumSeq(s) == IF s = <<>> THEN 0 ELSE Head(s) + SumSeq(Tail(s))

RECURSIVE SeqBag(_)
SeqBag(s) == IF s = <<>> THEN EmptyBag ELSE SetToBag({Head(s)}) (+) SeqBag(Tail(s))

RECURSIVE Flatten(_)
Flatten(ss) == IF ss = <<>> THEN <<>> ELSE Head(ss) \o Flatten(Tail(ss))

SeqsUpTo(S, n) == UNION {[1..k -> S] : k \in 0..n}

\* range(int(row['Quantity'])) expanded into items with Item ID code_(i+1)
ExpandRow(row) ==
  [i \in 1..row.Quantity |->
     [ProfileCode |-> row.ProfileCode, Length |-> row.Length,
      ItemID |-> <<row.ProfileCode, i>>]]

RECURSIVE ExpandRows(_)
ExpandRows(rows) ==
  IF rows = <<>> THEN <<>> ELSE ExpandRow(Head(rows)) \o ExpandRows(Tail(rows))

\* Series.unique(): distinct values in order of first appearance
RECURSIVE Unique(_, _)
Unique(s, seen) ==
  IF s = <<>> THEN <<>>
  ELSE IF Head(s) \in seen THEN Unique(Tail(s), seen)
       ELSE <<Head(s)>> \o Unique(Tail(s), seen \cup {Head(s)})

\* expanded_df[expanded_df['Profile Code'] == profile_code]
ProfileData(df, code) == SelectSeq(df, LAMBDA r : r.ProfileCode = code)

RECURSIVE InsertDesc(_, _)
InsertDesc(x, s) ==
  IF s = <<>> THEN <<x>>
  ELSE IF x >= Head(s) THEN <<x>> \o s
       ELSE <<Head(s)>> \o InsertDesc(x, Tail(s))

\* np.sort(lengths)[::-1]
RECURSIVE SortDesc(_)
SortDesc(s) == IF s = <<>> THEN <<>> ELSE InsertDesc(Head(s), SortDesc(Tail(s)))

LengthsOf(df) == [i \in 1..Len(df) |-> df[i].Length]

\* the last bar that has room is taken instead of the first
FirstFit_Last(rem, length) ==
  IF \E i \in 1..Len(rem) : length <= rem[i]
  THEN CHOOSE i \in 1..Len(rem) :
         /\ length <= rem[i]
         /\ \A j \in (i + 1)..Len(rem) : ~(length <= rem[j])
  ELSE 0

\* index of the first open bar with length <= remaining, 0 when none
FirstFit(rem, length) ==
  IF \E i \in 1..Len(rem) : length <= rem[i]
  THEN CHOOSE i \in 1..Len(rem) :
         /\ length <= rem[i]
         /\ \A j \in 1..(i - 1) : ~(length <= rem[j])
  ELSE 0

\* a > b for float ratios with positive denominators
EffGreater(a, b) == a[1] * b[2] > b[1] * a[2]

\* len(patterns) < best_bar_count, best_bar_count possibly float('inf')
BarCountLess(n, b) == b = Inf \/ n < b

\* the first not-yet-assigned item of each piece's length gets the bar number
RECURSIVE AssignPieces(_, _, _, _, _)
AssignPieces(pattern, results, profile_data, profile_code, bar) ==
  IF pattern = <<>> THEN results
  ELSE LET length == Head(pattern)
           assigned == {results[k].ItemID : k \in 1..Len(results)}
           unassigned_items ==
             SelectSeq(profile_data,
                       LAMBDA r : r.Length = length /\ r.ItemID \notin assigned)
           results2 ==
             IF unassigned_items # <<>>
             THEN Append(results,
                         [ProfileCode |-> profile_code,
                          ItemID |-> unassigned_items[1].ItemID,
                          Length |-> length,
                          BarNumber |-> bar])
             ELSE results
       IN AssignPieces(Tail(pattern), results2, profile_data, profile_code, bar)

\* order of the profile codes under sort_values
CodeOrder == <<"A", "B">>
Rank(c) == CHOOSE i \in 1..Len(CodeOrder) : CodeOrder[i] = c

\* sort keys: ['Profile Code', 'Bar Number'] and 'Profile Code'
KeyCodeBar(r) == <<Rank(r.ProfileCode), r.BarNumber>>
KeyCode(r) == <<Rank(r.ProfileCode), 0>>

KeyLess(a, b) == a[1] < b[1] \/ (a[1] = b[1] /\ a[2] < b[2])

\* place of row i in the sorted table; equal keys keep their order
Position(keys, i) ==
  Cardinality({j \in 1..Len(keys) :
                 KeyLess(keys[j], keys[i]) \/ (keys[j] = keys[i] /\ j < i)}) + 1

\* DataFrame.sort_values(keys).reset_index(drop=True)
SortValues(s, keys) ==
  [k \in 1..Len(s) |-> s[CHOOSE i \in 1..Len(s) : Position(keys, i) = k]]

\* Series.round(4): nearest multiple of 1/10000, halves to even; inf and nan stay
Round4(e) ==
  IF e[2] = 0 THEN e
  ELSE LET q == (e[1] * 10000) \div e[2]
           r == (e[1] * 10000) % e[2]
       IN <<IF 2 * r < e[2] THEN q
            ELSE IF 2 * r > e[2] THEN q + 1
            ELSE IF q % 2 = 0 THEN q ELSE q + 1, 10000>>

\* ---- state after the call is entered ----
DemandLines == [ProfileCode : Codes, Length : Lengths, Quantity : 1..MaxQuantity]

InitWith(data, stock, gap, method, options) ==
  /\ input_data = data
  /\ stock_length = stock
  /\ cutting_gap = gap
  /\ optimization_method = method
  /\ stock_length_options = options
  /\ pc = "start"
  /\ expanded_df = <<>>
  /\ profile_codes = <<>>
  /\ pidx = 0
  /\ lengths = <<>>
  /\ best_patterns = <<>>
  /\ best_remaining_lengths = <<>>
  /\ best_stock_length = 0
  /\ best_efficiency = <<0, 1>>
  /\ best_bar_count = Inf
  /\ cidx = 0
  /\ patterns = <<>>
  /\ remaining_lengths = <<>>
  /\ lidx = 0
  /\ scored = <<>>
  /\ pattern_data = <<>>
  /\ bar_number = 0
  /\ all_patterns = <<>>
  /\ all_summaries = <<>>
  /\ all_results = <<>>
  /\ patterns_df = <<>>
  /\ summary_df = <<>>
  /\ result_df = <<>>

Init ==
  \E data \in SeqsUpTo(DemandLines, MaxLines) \ {<<>>},
     stock \in StockLengths, gap \in Gaps, method \in Methods,
     options \in SeqsUpTo(StockLengths, MaxOptions) \cup {None} :
       InitWith(data, stock, gap, method, options)

\* ---- lines 22-41: default options, demand expansion, profile list ----
Expand ==
  /\ pc = "start"
  /\ stock_length_options' =
       IF stock_length_options = None THEN <<stock_length>>
       ELSE stock_length_options
  /\ expanded_df' = ExpandRows(input_data)
  /\ profile_codes' =
       Unique([i \in 1..Len(ExpandRows(input_data)) |->
                 ExpandRows(input_data)[i].ProfileCode], {})
  /\ pidx' = 1
  /\ all_patterns' = <<>>
  /\ all_summaries' = <<>>
  /\ all_results' = <<>>
  /\ pc' = "profile"
  /\ UNCHANGED <<args, lengths, best, cand, scored, pattern_data, bar_number, dfs>>

profile_code == profile_codes[pidx]
profile_data == ProfileData(expanded_df, profile_code)

\* ---- lines 43-58: next profile, its lengths sorted descending ----
NextProfile ==
  /\ pc = "profile"
  /\ pidx <= Len(profile_codes)
  /\ lengths' = SortDesc(LengthsOf(profile_data))
  /\ best_patterns' = <<>>
  /\ best_remaining_lengths' = <<>>
  /\ best_stock_length' = stock_length
  /\ best_efficiency' = <<0, 1>>
  /\ best_bar_count' = Inf
  /\ cidx' = 1
  /\ scored' = <<>>
  /\ pc' = "candidate"
  /\ UNCHANGED <<args, stock_length_options, expanded_df, profile_codes, pidx,
                 patterns, remaining_lengths, lidx, pattern_data, bar_number,
                 outs, dfs>>

\* ---- lines 61-64: next candidate stock length ----
StartCandidate ==
  /\ pc = "candidate"
  /\ cidx <= Len(stock_length_options)
  /\ patterns' = <<>>
  /\ remaining_lengths' = <<>>
  /\ lidx' = 1
  /\ pc' = "place"
  /\ UNCHANGED <<args, stock_length_options, expanded_df, profile_codes, pidx,
                 lengths, best, cidx, scored, pattern_data, bar_number, outs, dfs>>

current_stock_length ==
  IF pc \in {"place"} THEN stock_length_options[cidx] ELSE best_stock_length

\* the bar's piece list is replaced by the new piece instead of extended
PlaceInExistingBar_Overwrite ==
  /\ pc = "place"
  /\ lidx <= Len(lengths)
  /\ LET length == lengths[lidx]
         i == FirstFit(remaining_lengths, length)
     IN /\ i # 0
        /\ patterns' = [patterns EXCEPT ![i] = <<length>>]
        /\ remaining_lengths' =
             [remaining_lengths EXCEPT ![i] = @ - length - cutting_gap]
  /\ lidx' = lidx + 1
  /\ UNCHANGED <<args, stock_length_options, pc, expanded_df, profile_codes,
                 pidx, lengths, best, cidx, scored, pattern_data, bar_number,
                 outs, dfs>>

\* ---- lines 66-77: the length goes to the first bar that has room ----
PlaceInExistingBar ==
  /\ pc = "place"
  /\ lidx <= Len(lengths)
  /\ LET length == lengths[lidx]
         i == FirstFit(remaining_lengths, length)
     IN /\ i # 0
        /\ patterns' = [patterns EXCEPT ![i] = Append(@, length)]
        /\ remaining_lengths' =
             [remaining_lengths EXCEPT ![i] = @ - length - cutting_gap]
  /\ lidx' = lidx + 1
  /\ UNCHANGED <<args, stock_length_options, pc, expanded_df, profile_codes,
                 pidx, lengths, best, cidx, scored, pattern_data, bar_number,
                 outs, dfs>>

\* the cutting gap is not charged to the piece that opens a bar
OpenNewBar_NoGap ==
  /\ pc = "place"
  /\ lidx <= Len(lengths)
  /\ LET length == lengths[lidx]
     IN /\ FirstFit(remaining_lengths, length) = 0
        /\ patterns' = Append(patterns, <<length>>)
        /\ remaining_lengths' =
             Append(remaining_lengths, current_stock_length - length)
  /\ lidx' = lidx + 1
  /\ UNCHANGED <<args, stock_length_options, pc, expanded_df, profile_codes,
                 pidx, lengths, best, cidx, scored, pattern_data, bar_number,
                 outs, dfs>>

\* ---- lines 79-82: no bar has room, a new bar is opened ----
OpenNewBar ==
  /\ pc = "place"
  /\ lidx <= Len(lengths)
  /\ LET length == lengths[lidx]
     IN /\ FirstFit(remaining_lengths, length) = 0
        /\ patterns' = Append(patterns, <<length>>)
        /\ remaining_lengths' =
             Append(remaining_lengths,
                    current_stock_length - length - cutting_gap)
  /\ lidx' = lidx + 1
  /\ UNCHANGED <<args, stock_length_options, pc, expanded_df, profile_codes,
                 pidx, lengths, best, cidx, scored, pattern_data, bar_number,
                 outs, dfs>>

\* ---- lines 84-87: metrics of the candidate just packed ----
total_used_length == SumSeq(Flatten(patterns))
total_stock_length == current_stock_length * Len(patterns)
current_efficiency ==
  IF total_stock_length > 0 THEN <<total_used_length, total_stock_length>>
  ELSE <<0, 1>>

\* >= in place of >: a later candidate of equal efficiency replaces the best
IsBetter_TiesToLast ==
  IF optimization_method = MaxEfficiency
  THEN ~EffGreater(best_efficiency, current_efficiency)
  ELSE \/ BarCountLess(Len(patterns), best_bar_count)
       \/ /\ Len(patterns) = best_bar_count
          /\ ~EffGreater(best_efficiency, current_efficiency)

\* the efficiency tie-break of the bar-count objective is left out
IsBetter_NoTieBreak ==
  IF optimization_method = MaxEfficiency
  THEN EffGreater(current_efficiency, best_efficiency)
  ELSE BarCountLess(Len(patterns), best_bar_count)

\* the candidate is compared with the initial 0, not with the best so far
IsBetter_AgainstZero ==
  IF optimization_method = MaxEfficiency
  THEN EffGreater(current_efficiency, <<0, 1>>)
  ELSE \/ BarCountLess(Len(patterns), best_bar_count)
       \/ /\ Len(patterns) = best_bar_count
          /\ EffGreater(current_efficiency, best_efficiency)

\* ---- lines 90-100: does the candidate replace the best so far ----
IsBetter ==
  IF optimization_method = MaxEfficiency
  THEN EffGreater(current_efficiency, best_efficiency)
  ELSE \/ BarCountLess(Len(patterns), best_bar_count)
       \/ /\ Len(patterns) = best_bar_count
          /\ EffGreater(current_efficiency, best_efficiency)

\* ---- lines 84-105: score the candidate, keep it if it is better ----
ScoreCandidate ==
  /\ pc = "place"
  /\ lidx > Len(lengths)
  /\ scored' = Append(scored, [stockLength |-> current_stock_length,
                               bars |-> patterns,
                               barCount |-> Len(patterns),
                               efficiency |-> current_efficiency])
  /\ IF IsBetter
     THEN /\ best_patterns' = patterns
          /\ best_remaining_lengths' = remaining_lengths
          /\ best_stock_length' = current_stock_length
          /\ best_efficiency' = current_efficiency
          /\ best_bar_count' = Len(patterns)
     ELSE UNCHANGED best
  /\ cidx' = cidx + 1
  /\ pc' = "candidate"
  /\ UNCHANGED <<args, stock_length_options, expanded_df, profile_codes, pidx,
                 lengths, patterns, remaining_lengths, lidx, pattern_data,
                 bar_number, outs, dfs>>

\* ---- lines 107-114: the candidate loop is over, take the best solution ----
UseBest ==
  /\ pc = "candidate"
  /\ cidx > Len(stock_length_options)
  /\ patterns' = best_patterns
  /\ remaining_lengths' = best_remaining_lengths
  /\ pattern_data' = <<>>
  /\ bar_number' = 1
  /\ pc' = "rows"
  /\ UNCHANGED <<args, stock_length_options, expanded_df, profile_codes, pidx,
                 lengths, best, cidx, lidx, scored, outs, dfs>>

\* ---- lines 116-149: one Patterns row, and the bar's pieces assigned ----
BuildPatternRow ==
  /\ pc = "rows"
  /\ bar_number <= Len(patterns)
  /\ LET pattern == patterns[bar_number]
         remaining == remaining_lengths[bar_number]
     IN /\ pattern_data' =
             Append(pattern_data,
                    [ProfileCode |-> profile_code,
                     BarNumber |-> bar_number,
                     StockLength |-> current_stock_length,
                     UsedLength |-> current_stock_length - remaining,
                     RemainingLength |-> remaining,
                     Efficiency |-> <<SumSeq(pattern), current_stock_length>>,
                     CuttingPattern |-> pattern,
                     Pieces |-> Len(pattern)])
        /\ all_results' =
             AssignPieces(pattern, all_results, profile_data, profile_code,
                          bar_number)
  /\ bar_number' = bar_number + 1
  /\ UNCHANGED <<args, stock_length_options, pc, expanded_df, profile_codes,
                 pidx, lengths, best, cand, scored, all_patterns,
                 all_summaries, dfs>>

\* np.mean of the bars' efficiencies (one stock length for all bars); nan if none
MeanEfficiency(rows) ==
  IF rows = <<>> THEN <<0, 0>>
  ELSE <<SumSeq([i \in 1..Len(rows) |-> rows[i].Efficiency[1]]),
         rows[1].Efficiency[2] * Len(rows)>>

\* the gap is charged to every piece, with no credit of one gap per bar
Summarize_NoBarCredit ==
  /\ pc = "rows"
  /\ bar_number > Len(patterns)
  /\ all_patterns' = all_patterns \o pattern_data
  /\ LET total_bars == Len(patterns)
         total_length_needed == SumSeq(lengths)
         total_length_used ==
           SumSeq([i \in 1..Len(pattern_data) |-> pattern_data[i].StockLength])
     IN all_summaries' =
          Append(all_summaries,
                 [ProfileCode |-> profile_code,
                  TotalPieces |-> Len(lengths),
                  TotalBarsUsed |-> total_bars,
                  TotalLengthNeeded |-> total_length_needed,
                  TotalStockLength |-> total_length_used,
                  Waste |-> total_length_used - total_length_needed
                            - Len(lengths) * cutting_gap,
                  OverallEfficiency |-> <<total_length_needed, total_length_used>>,
                  AverageBarEfficiency |-> MeanEfficiency(pattern_data)])
  /\ pidx' = pidx + 1
  /\ pc' = "profile"
  /\ UNCHANGED <<args, stock_length_options, expanded_df, profile_codes,
                 lengths, best, cand, scored, pattern_data, bar_number,
                 all_results, dfs>>

\* ---- lines 151-168: the profile's rows are kept and its summary is made ----
Summarize ==
  /\ pc = "rows"
  /\ bar_number > Len(patterns)
  /\ all_patterns' = all_patterns \o pattern_data
  /\ LET total_bars == Len(patterns)
         total_length_needed == SumSeq(lengths)
         total_length_used ==
           SumSeq([i \in 1..Len(pattern_data) |-> pattern_data[i].StockLength])
     IN all_summaries' =
          Append(all_summaries,
                 [ProfileCode |-> profile_code,
                  TotalPieces |-> Len(lengths),
                  TotalBarsUsed |-> total_bars,
                  TotalLengthNeeded |-> total_length_needed,
                  TotalStockLength |-> total_length_used,
                  Waste |-> total_length_used - total_length_needed
                            - (Len(lengths) - total_bars) * cutting_gap,
                  OverallEfficiency |-> <<total_length_needed, total_length_used>>,
                  AverageBarEfficiency |-> MeanEfficiency(pattern_data)])
  /\ pidx' = pidx + 1
  /\ pc' = "profile"
  /\ UNCHANGED <<args, stock_length_options, expanded_df, profile_codes,
                 lengths, best, cand, scored, pattern_data, bar_number,
                 all_results, dfs>>

\* ---- lines 170-190: the three tables, sorted, efficiencies rounded ----
Finish ==
  /\ pc = "profile"
  /\ pidx > Len(profile_codes)
  /\ patterns_df' =
       LET sorted == SortValues(all_patterns,
                                [i \in 1..Len(all_patterns) |->
                                   KeyCodeBar(all_patterns[i])])
       IN [i \in 1..Len(sorted) |->
             [sorted[i] EXCEPT !.Efficiency = Round4(@)]]
  /\ summary_df' =
       LET sorted == SortValues(all_summaries,
                                [i \in 1..Len(all_summaries) |->
                                   KeyCode(all_summaries[i])])
       IN [i \in 1..Len(sorted) |->
             [sorted[i] EXCEPT !.OverallEfficiency = Round4(@),
                               !.AverageBarEfficiency = Round4(@)]]
  /\ result_df' =
       SortValues(all_results,
                  [i \in 1..Len(all_results) |-> KeyCodeBar(all_results[i])])
  /\ pc' = "done"
  /\ UNCHANGED <<args, stock_length_options, expanded_df, profile_codes, pidx,
                 lengths, best, cand, scored, pattern_data, bar_number, outs>>

Next ==
  \/ Expand
  \/ NextProfile
  \/ StartCandidate
  \/ PlaceInExistingBar
  \/ OpenNewBar
  \/ ScoreCandidate
  \/ UseBest
  \/ BuildPatternRow
  \/ Summarize
  \/ Finish

Spec == Init /\ [][Next]_vars

\* ---- types ----
TypeOK ==
  /\ pc \in {"start", "profile", "candidate", "place", "rows", "done"}
  /\ Len(patterns) = Len(remaining_lengths)
  /\ Len(best_patterns) = Len(best_remaining_lengths)

\* ---- vocabulary of the properties ----
Returned == pc = "done"
HasCandidates == stock_length_options # <<>>
Demand(code) == LengthsOf(ProfileData(expanded_df, code))
RowsOf(table, code) == SelectSeq(table, LAMBDA r : r.ProfileCode = code)
PiecesOf(table, code) ==
  Flatten([i \in 1..Len(RowsOf(table, code)) |->
             RowsOf(table, code)[i].CuttingPattern])
PieceCount(table, code) ==
  SumSeq([i \in 1..Len(RowsOf(table, code)) |-> RowsOf(table, code)[i].Pieces])
\* some candidate stock length is at least as long as the item
Fits(length) ==
  \E k \in 1..Len(stock_length_options) : length <= stock_length_options[k]
Infeasible(code) ==
  /\ HasCandidates
  /\ \E i \in 1..Len(Demand(code)) : ~Fits(Demand(code)[i])
NoInfeasibleItem ==
  /\ HasCandidates
  /\ \A i \in 1..Len(expanded_df) : Fits(expanded_df[i].Length)

\* C1: with at least one candidate stock length, the pieces on the bars of
\* each profile's winning pattern set are the profile's expanded demand, as a
\* multiset of lengths and by count.
C1_DemandPreserved ==
  (Returned /\ HasCandidates) =>
    \A code \in Codes :
      /\ SeqBag(PiecesOf(patterns_df, code)) = SeqBag(Demand(code))
      /\ PieceCount(patterns_df, code) = Len(Demand(code))

\* a run that packed several pieces on one bar and used several bars
C1_Witness ==
  /\ Returned /\ HasCandidates
  /\ \E i, j \in 1..Len(patterns_df) :
       /\ i # j
       /\ patterns_df[i].ProfileCode = patterns_df[j].ProfileCode
       /\ patterns_df[i].Pieces >= 2
       /\ patterns_df[i].CuttingPattern[1] # patterns_df[i].CuttingPattern[2]

\* C2: every returned bar has Remaining Length >= 0 when no demanded length
\* exceeds every candidate stock length.
C2_RemainingNonNegative ==
  (Returned /\ NoInfeasibleItem) =>
    \A i \in 1..Len(patterns_df) : patterns_df[i].RemainingLength >= 0

\* C3: the Results table has exactly one row per expanded demand item.
C3_OneRowPerItem ==
  (Returned /\ HasCandidates) => Len(result_df) = Len(expanded_df)

\* C4: every expanded item has an Item ID <profileCode>_<index> that no other
\* item of the same profile code has.
C4_ItemIdUnique ==
  \A i, j \in 1..Len(expanded_df) :
    /\ expanded_df[i].ItemID[1] = expanded_df[i].ProfileCode
    /\ (i # j /\ expanded_df[i].ProfileCode = expanded_df[j].ProfileCode)
         => expanded_df[i].ItemID # expanded_df[j].ItemID

ResultLengths(code, bar) ==
  LengthsOf(SelectSeq(result_df,
                      LAMBDA r : r.ProfileCode = code /\ r.BarNumber = bar))

\* C5: for every profile and bar number, the lengths of the Results rows of
\* that bar are the multiset of pieces of the Pattern row of that bar.
C5_RoundTrip ==
  (Returned /\ HasCandidates) =>
    \A i \in 1..Len(patterns_df) :
      SeqBag(ResultLengths(patterns_df[i].ProfileCode, patterns_df[i].BarNumber))
        = SeqBag(patterns_df[i].CuttingPattern)

\* C6: when a demanded length of a profile exceeds every candidate stock
\* length, the call does not return a bar of that profile with negative
\* remaining capacity (it raises instead).
C6_InfeasibleRejected ==
  Returned =>
    \A code \in Codes :
      Infeasible(code) =>
        \A i \in 1..Len(RowsOf(patterns_df, code)) :
          RowsOf(patterns_df, code)[i].RemainingLength >= 0

\* C7: with an empty stock_length_options no summary row is returned, in
\* particular none with zero bars.
C7_NoCandidateRejected ==
  (Returned /\ ~HasCandidates) => summary_df = <<>>

\* C8: every produced bar has 0 < sum(pieces)/stockLength <= 1.
C8_EfficiencyInUnitInterval ==
  \A i \in 1..Len(all_patterns) :
    /\ 0 < all_patterns[i].Efficiency[1]
    /\ all_patterns[i].Efficiency[1] <= all_patterns[i].Efficiency[2]

\* the candidate loop of the current profile is over
Selected == pc = "rows" /\ HasCandidates
BestIs(k) ==
  /\ best_stock_length = scored[k].stockLength
  /\ best_patterns = scored[k].bars
  /\ best_bar_count = scored[k].barCount
  /\ best_efficiency = scored[k].efficiency

\* C9: under MaxEfficiency the winner is the earliest candidate whose
\* efficiency no candidate exceeds.
C9_MaxEfficiencyWinner ==
  (Selected /\ optimization_method = MaxEfficiency) =>
    \E k \in 1..Len(scored) :
      /\ \A j \in 1..Len(scored) :
           ~EffGreater(scored[j].efficiency, scored[k].efficiency)
      /\ \A j \in 1..(k - 1) :
           EffGreater(scored[k].efficiency, scored[j].efficiency)
      /\ BestIs(k)

\* two candidates of different stock length tie on the greatest efficiency
C9_Witness ==
  /\ Selected /\ optimization_method = MaxEfficiency
  /\ Len(scored) = 2
  /\ scored[1].stockLength # scored[2].stockLength
  /\ ~EffGreater(scored[1].efficiency, scored[2].efficiency)
  /\ ~EffGreater(scored[2].efficiency, scored[1].efficiency)
  /\ best_stock_length = scored[1].stockLength

\* candidate a is ahead of candidate b under MinBarCount
MinBarAhead(a, b) ==
  \/ a.barCount < b.barCount
  \/ a.barCount = b.barCount /\ EffGreater(a.efficiency, b.efficiency)

\* C10: under MinBarCount the winner has the smallest barCount, among those
\* the greatest efficiency, and among those it is the earliest candidate.
C10_MinBarCountWinner ==
  (Selected /\ optimization_method = MinBarCount) =>
    \E k \in 1..Len(scored) :
      /\ \A j \in 1..Len(scored) : scored[k].barCount <= scored[j].barCount
      /\ \A j \in 1..Len(scored) :
           scored[j].barCount = scored[k].barCount =>
             ~EffGreater(scored[j].efficiency, scored[k].efficiency)
      /\ \A j \in 1..(k - 1) : MinBarAhead(scored[k], scored[j])
      /\ BestIs(k)

\* the second candidate ties on barCount and wins on efficiency
C10_Witness ==
  /\ Selected /\ optimization_method = MinBarCount
  /\ Len(scored) = 2
  /\ scored[1].barCount = scored[2].barCount
  /\ EffGreater(scored[2].efficiency, scored[1].efficiency)
  /\ best_stock_length = scored[2].stockLength
  /\ best_stock_length # scored[1].stockLength

\* a candidate has just been scored: the selection now is the selection of a
\* call whose candidate list ends with that candidate
CandidateAdded == pc = "place" /\ pc' = "candidate"

\* C11: under MaxEfficiency, with demand and gap fixed, one more candidate
\* stock length at the end of the list never lowers the efficiency of the
\* selected winner.
C11_MoreCandidatesNeverLower ==
  [][(CandidateAdded /\ optimization_method = MaxEfficiency) =>
       ~EffGreater(best_efficiency, best_efficiency')]_vars

\* a second candidate was added that is less efficient than the first, and
\* the selected efficiency stayed that of the first
C11_Witness ==
  /\ Selected /\ optimization_method = MaxEfficiency
  /\ Len(scored) = 2
  /\ EffGreater(scored[1].efficiency, scored[2].efficiency)
  /\ best_efficiency = scored[1].efficiency

\* one length has just been placed
Placed == pc = "place" /\ lidx' = lidx + 1

\* the length went to open bar i
WentTo(i, length) ==
  /\ patterns' = [patterns EXCEPT ![i] = Append(@, length)]
  /\ remaining_lengths' =
       [remaining_lengths EXCEPT ![i] = @ - length - cutting_gap]

\* the length opened a new bar
OpenedBar(length) ==
  /\ patterns' = Append(patterns, <<length>>)
  /\ remaining_lengths' =
       Append(remaining_lengths,
              stock_length_options[cidx] - length - cutting_gap)

\* C12: the lengths are taken in descending order; each goes to the
\* earliest-created open bar whose remaining capacity is >= the length, which
\* loses length + cuttingGap; a new bar, of remaining capacity
\* stockLength - length - cuttingGap, is opened only when every open bar's
\* remaining capacity is strictly less than the length.
C12_FirstFit ==
  [][Placed =>
       LET length == lengths[lidx]
           open == 1..Len(remaining_lengths)
       IN /\ \A k \in 1..(lidx - 1) : lengths[k] >= length
          /\ \/ \E i \in open :
                  /\ remaining_lengths[i] >= length
                  /\ \A j \in 1..(i - 1) : remaining_lengths[j] < length
                  /\ WentTo(i, length)
             \/ /\ \A j \in open : remaining_lengths[j] < length
                /\ OpenedBar(length)]_vars

\* a piece went to the first bar while the second bar had room for it too,
\* and the second bar had been opened although the first was not empty
C12_Witness ==
  /\ pc = "place"
  /\ Len(patterns) = 2
  /\ Len(patterns[1]) = 2
  /\ Len(patterns[2]) = 1
  /\ patterns[1][2] < patterns[2][1]
  /\ patterns[1][2] <= remaining_lengths[2]

\* ---- the worked example: 5 x 1200, 3 x 800, 2 x 1500 of profile A ----
ExampleLines ==
  {[ProfileCode |-> "A", Length |-> 1200, Quantity |-> 5],
   [ProfileCode |-> "A", Length |-> 800, Quantity |-> 3],
   [ProfileCode |-> "A", Length |-> 1500, Quantity |-> 2]}
ExampleStock == 6000
ExampleGap == 10

\* the three demand lines in any order, stock 6000 given either as the
\* default stock length or as the one option, either objective
InitExample ==
  \E data \in [1..3 -> ExampleLines], method \in Methods,
     options \in {None, <<ExampleStock>>} :
       /\ {data[i] : i \in 1..3} = ExampleLines
       /\ InitWith(data, ExampleStock, ExampleGap, method, options)

SpecExample == InitExample /\ [][Next]_vars

ExampleOrder == <<1500, 1500, 1200, 1200, 1200, 1200, 1200, 800, 800, 800>>
ExampleFirstBar == <<1500, 1500, 1200, 1200>>
ExampleRemaining == <<4490, 2980, 1770, 560>>

\* C13: on the example the lengths are processed in the order 1500, 1500,
\* 1200 x 5, 800 x 3; the first bar receives 1500, 1500, 1200, 1200 with
\* remaining capacities 4490, 2980, 1770, 560 after each placement; the third
\* 1200 does not fit it and opens the second bar; the first bar gets no more.
C13_Example ==
  pc = "place" =>
    /\ lengths = ExampleOrder
    /\ \A k \in 1..4 :
         lidx = k + 1 =>
           /\ patterns = <<SubSeq(ExampleFirstBar, 1, k)>>
           /\ remaining_lengths = <<ExampleRemaining[k]>>
    /\ lidx = 6 =>
         /\ patterns = <<ExampleFirstBar, <<1200>>>>
         /\ remaining_lengths[1] = 560
    /\ lidx >= 6 =>
         /\ patterns[1] = ExampleFirstBar
         /\ remaining_lengths[1] = 560

\* the third 1200 has just opened the second bar
C13_Witness ==
  /\ pc = "place"
  /\ lidx = 6
  /\ input_data[1].Length = 1200
  /\ Len(patterns) = 2
  /\ patterns[2] = <<1200>>

\* sum over the profile's returned bars of Remaining Length + cuttingGap
LeftOnBars(code) ==
  SumSeq([i \in 1..Len(RowsOf(patterns_df, code)) |->
            RowsOf(patterns_df, code)[i].RemainingLength + cutting_gap])

\* every demanded length of the profile is at most the selected stock length
FitsSelected(code) ==
  \A i \in 1..Len(Demand(code)) :
    \A k \in 1..Len(RowsOf(patterns_df, code)) :
      Demand(code)[i] <= RowsOf(patterns_df, code)[k].StockLength

\* C14: with at least one candidate stock length, each profile's Waste (mm)
\* equals the sum over its bars of Remaining Length + cuttingGap, and is >= 0
\* when every demanded length is at most the selected stock length.
C14_WasteIsLeftOnBars ==
  (Returned /\ HasCandidates) =>
    \A s \in 1..Len(summary_df) :
      /\ summary_df[s].Waste = LeftOnBars(summary_df[s].ProfileCode)
      /\ FitsSelected(summary_df[s].ProfileCode) => summary_df[s].Waste >= 0

\* a profile cut from several bars, some bar carrying several pieces, all of
\* its lengths within the selected stock length, and material left over
C14_Witness ==
  /\ Returned /\ HasCandidates
  /\ \E s \in 1..Len(summary_df) :
       /\ summary_df[s].TotalBarsUsed >= 2
       /\ summary_df[s].TotalPieces > summary_df[s].TotalBarsUsed
       /\ FitsSelected(summary_df[s].ProfileCode)
       /\ summary_df[s].Waste > 0
       /\ summary_df[s].Waste = LeftOnBars(summary_df[s].ProfileCode)
====
